---- MODULE Spec2Model ----
(***************************************************************************)
(* Release pipeline of the Remotion monorepo for a local Verdaccio         *)
(* registry: publish-to-verdaccio.ts (the orchestrator) and the steps it   *)
(* runs as child processes.                                                *)
(*                                                                         *)
(* JavaScript strings are modelled as sequences of one-character strings,  *)
(* so that RegExp.test and String.includes are computed character by       *)
(* character.  Join turns such a sequence into a TLA+ string for the       *)
(* command lines kept in the call log.                                     *)
(***************************************************************************)
EXTENDS Integers, Sequences, FiniteSets, TLC

\* ---------------------------------------------------------------- bounds
\* most entries of packages/ when the propagator is run on its own
MaxEntries == 2
\* most runs of one script in a row
MaxRuns == 2
\* most children of one run that are killed by a signal
MaxSignals == 1
\* longest version argument enumerated exhaustively
MaxVerLen == 5
\* largest exit status a child process reports
MaxStatus == 2

\* --------------------------------------------------------------- strings
RECURSIVE Join(_)
Join(s) == IF s = <<>> THEN "" ELSE Head(s) \o Join(Tail(s))

\* String.prototype.includes
Includes(s, sub) ==
    \E k \in 0..(Len(s) - Len(sub)) : SubSeq(s, k + 1, k + Len(sub)) = sub

Digits == {"0", "1", "2", "3", "4", "5", "6", "7", "8", "9"}

\* the pattern with its dots left unescaped, /^4.0.\d+$/
VersionPatternUnescaped ==
    << [kind |-> "char", c |-> "4"], [kind |-> "any", c |-> ""],
       [kind |-> "char", c |-> "0"], [kind |-> "any", c |-> ""],
       [kind |-> "digit+", c |-> ""] >>

\* the regular expression /^4\.0\.\d+$/ between its anchors: four literal
\* characters, then \d+
VersionPattern ==
    << [kind |-> "char", c |-> "4"], [kind |-> "char", c |-> "."],
       [kind |-> "char", c |-> "0"], [kind |-> "char", c |-> "."],
       [kind |-> "digit+", c |-> ""] >>

\* one element of a pattern against one character
Accepts(e, ch) ==
    CASE e.kind = "char" -> ch = e.c
      [] e.kind = "any" -> ch # "\n"
      [] e.kind = "digit+" -> ch \in Digits

\* RegExp.prototype.test for an anchored pattern ^...$ without flags:
\* pattern element k onwards matches s from position p to its end
RECURSIVE MatchAt(_, _, _, _)
MatchAt(pat, s, p, k) ==
    IF k > Len(pat)
    THEN p = Len(s) + 1
    ELSE /\ p <= Len(s)
         /\ Accepts(pat[k], s[p])
         /\ \/ MatchAt(pat, s, p + 1, k + 1)
            \/ pat[k].kind = "digit+" /\ MatchAt(pat, s, p + 1, k)

\* /^4\.0\.\d+$/.test(s)
TestVersion(s) == MatchAt(VersionPattern, s, 1, 1)

\* ------------------------------------------------- literals of the source
BuildWord == <<"B", "u", "i", "l", "d">>
BumpVersionTo == <<"B", "u", "m", "p", " ", "v", "e", "r", "s", "i", "o", "n", " ", "t", "o", " ">>
UpdateVersionFilesTo == <<"U", "p", "d", "a", "t", "e", " ", "v", "e", "r", "s", "i", "o", "n", ".", "t", "s", " ", "f", "i", "l", "e", "s", " ", "t", "o", " ">>
InstallDescription == <<"I", "n", "s", "t", "a", "l", "l", " ", "d", "e", "p", "e", "n", "d", "e", "n", "c", "i", "e", "s">>
BuildDescription == <<"B", "u", "i", "l", "d", " ", "a", "l", "l", " ", "p", "a", "c", "k", "a", "g", "e", "s">>
PublishingScoped == <<"P", "u", "b", "l", "i", "s", "h", "i", "n", "g", " ", "@", "r", "e", "m", "o", "t", "i", "o", "n", "/">>
TaggingWord == <<"T", "a", "g", "g", "i", "n", "g", " ">>
AsLatest == <<" ", "a", "s", " ", "l", "a", "t", "e", "s", "t">>
Scope == <<"@", "r", "e", "m", "o", "t", "i", "o", "n", "/">>
Unscoped == <<"r", "e", "m", "o", "t", "i", "o", "n">>
CorePkg == <<"c", "o", "r", "e">>
AtSign == <<"@">>

publishOrder ==
    << <<"b", "u", "n", "d", "l", "e", "r">>,
       <<"c", "l", "i">>,
       <<"c", "o", "m", "p", "o", "s", "i", "t", "o", "r", "-", "d", "a", "r", "w", "i", "n", "-", "a", "r", "m", "6", "4">>,
       <<"c", "o", "m", "p", "o", "s", "i", "t", "o", "r", "-", "d", "a", "r", "w", "i", "n", "-", "x", "6", "4">>,
       <<"c", "o", "m", "p", "o", "s", "i", "t", "o", "r", "-", "l", "i", "n", "u", "x", "-", "a", "r", "m", "6", "4", "-", "g", "n", "u">>,
       <<"c", "o", "m", "p", "o", "s", "i", "t", "o", "r", "-", "l", "i", "n", "u", "x", "-", "a", "r", "m", "6", "4", "-", "m", "u", "s", "l">>,
       <<"c", "o", "m", "p", "o", "s", "i", "t", "o", "r", "-", "l", "i", "n", "u", "x", "-", "x", "6", "4", "-", "g", "n", "u">>,
       <<"c", "o", "m", "p", "o", "s", "i", "t", "o", "r", "-", "l", "i", "n", "u", "x", "-", "x", "6", "4", "-", "m", "u", "s", "l">>,
       <<"c", "o", "m", "p", "o", "s", "i", "t", "o", "r", "-", "w", "i", "n", "3", "2", "-", "x", "6", "4", "-", "m", "s", "v", "c">>,
       <<"l", "a", "m", "b", "d", "a">>,
       <<"l", "a", "m", "b", "d", "a", "-", "c", "l", "i", "e", "n", "t">>,
       <<"l", "i", "c", "e", "n", "s", "i", "n", "g">>,
       <<"m", "e", "d", "i", "a", "-", "p", "a", "r", "s", "e", "r">>,
       <<"m", "e", "d", "i", "a", "-", "u", "t", "i", "l", "s">>,
       <<"p", "l", "a", "y", "e", "r">>,
       <<"r", "e", "n", "d", "e", "r", "e", "r">>,
       <<"s", "e", "r", "v", "e", "r", "l", "e", "s", "s">>,
       <<"s", "e", "r", "v", "e", "r", "l", "e", "s", "s", "-", "c", "l", "i", "e", "n", "t">>,
       <<"s", "t", "r", "e", "a", "m", "i", "n", "g">>,
       <<"s", "t", "u", "d", "i", "o">>,
       <<"s", "t", "u", "d", "i", "o", "-", "s", "e", "r", "v", "e", "r">>,
       <<"s", "t", "u", "d", "i", "o", "-", "s", "h", "a", "r", "e", "d">>,
       <<"w", "e", "b", "-", "r", "e", "n", "d", "e", "r", "e", "r">>,
       <<"w", "e", "b", "c", "o", "d", "e", "c", "s">>,
       <<"z", "o", "d", "-", "t", "y", "p", "e", "s">>,
       <<"c", "o", "r", "e">>,
       <<"t", "a", "i", "l", "w", "i", "n", "d", "-", "v", "4">>,
       <<"e", "n", "a", "b", "l", "e", "-", "s", "c", "s", "s">>,
       <<"s", "k", "i", "a">> >>

\* process.exit(1) in error()
ExitFailure == 1
\* status of a process whose main returns
ExitSuccess == 0

\* ---------------------------------------------------------------- inputs
Alphabet == {"4", "0", "."}
Strings(n) == UNION {[1..k -> Alphabet] : k \in 0..n}
Examples == {<<"4", ".", "0", ".", "4", "2", "8">>, <<"4", ".", "1", ".", "0">>}
\* the command line after the script name: no argument, or one string
Argvs == {<<>>} \cup {<<s>> : s \in Strings(MaxVerLen) \cup Examples}

\* what spawnSync returns: error set (the child could not be started),
\* status null with a signal (the child was killed), or an exit status
SpawnResults ==
    {[error |-> TRUE, signal |-> FALSE, status |-> 0],
     [error |-> FALSE, signal |-> TRUE, status |-> 0]}
    \cup {[error |-> FALSE, signal |-> FALSE, status |-> c] : c \in 0..MaxStatus}

\* the value of exec's local before spawnSync has returned
NoResult == [error |-> FALSE, signal |-> FALSE, status |-> 0]

\* ------------------------------------------------------ files on disk
\* The text of a package.json: whether it is the text of a JSON object,
\* its members in the order written (a key may be written twice), and
\* whether it is laid out as JSON.stringify(value, null, '\t') + '\n'
\* lays it out.
NotJson == [json |-> FALSE, members |-> <<>>, canonical |-> FALSE]

\* the object with no member but the one assigned
SetPropAlone(obj, key, value) == << <<key, value>> >>

\* obj[key] = value: an own property keeps its place, a new one goes last
SetProp(obj, key, value) ==
    IF \E j \in DOMAIN obj : obj[j][1] = key
    THEN [j \in DOMAIN obj |-> IF obj[j][1] = key THEN <<key, value>> ELSE obj[j]]
    ELSE Append(obj, <<key, value>>)

\* obj[key] in a template literal
GetProp(obj, key) ==
    IF \E j \in DOMAIN obj : obj[j][1] = key
    THEN (CHOOSE m \in {obj[j] : j \in DOMAIN obj} : m[1] = key)[2]
    ELSE "undefined"

\* JSON.parse(text) for the text of an object: the members are defined
\* from left to right
RECURSIVE ParseFrom(_, _, _)
ParseFrom(members, k, obj) ==
    IF k > Len(members)
    THEN obj
    ELSE ParseFrom(members, k + 1, SetProp(obj, members[k][1], members[k][2]))

JSONparse(text) == ParseFrom(text.members, 1, <<>>)

\* JSON.stringify(obj, null, '\t') + '\n'
JSONstringify(obj) == [json |-> TRUE, members |-> obj, canonical |-> TRUE]

\* a write that adds the new text at the end of the file, appendFileSync
AppendFile(old, new) ==
    [json |-> old.json, members |-> old.members \o new.members,
     canonical |-> FALSE]

\* writeFileSync(path, text): the file holds the new text and nothing else
WriteFile(old, new) == new

\* the exit status of bun after an uncaught exception
UncaughtStatus == 1

\* --------------------------------------------------- update-version.ts
RECURSIVE SeqToSet(_)
SeqToSet(s) == IF s = <<>> THEN {} ELSE {s[1]} \cup SeqToSet(Tail(s))

\* no template is kept out of the update
localTemplatesNone(featured) == <<>>

\* FEATURED_TEMPLATES.map((t) => t.templateInMonorepo).filter(Boolean); a
\* template without templateInMonorepo has "" in its place
localTemplates(featured) == SelectSeq(featured, LAMBDA t : t # "")

\* readdirSync('packages') filtered by isDirectory() and by the
\* existence of package.json: the positions of the entries kept
dirs(entries) ==
    SelectSeq([k \in 1..Len(entries) |-> k],
              LAMBDA k : entries[k].isDirectory /\ entries[k].hasManifest)

UpdatedLine(name, v) == "Updated " \o name \o " to v" \o Join(v)
UpdatedTotal(updated, v) ==
    "Updated " \o ToString(updated) \o " packages to version " \o Join(v)
NextHint == "Next: bun run build && bun publish.ts"

\* the for loop over dirs, taken pass by pass: a pass for a template
\* continues at once, a pass for a package.json that cannot be read,
\* parsed or written throws, any other pass writes the file and counts it
IsTemplate(dir, featured) == dir.name \in SeqToSet(localTemplates(featured))
Throws(dir, featured) ==
    ~IsTemplate(dir, featured) /\ (~dir.accessible \/ ~dir.text.json)

\* packageJson after line 37
packageJson(dir, v) == SetProp(JSONparse(dir.text), "version", Join(v))

\* the passes completed when the loop is left: all of them, or those
\* before the first one that throws, or `steps` of them when the script is
\* stopped from outside after so many
PassesDone(entries, featured, steps) ==
    LET ds == dirs(entries)
        ok == {n \in 0..Len(ds) :
                  /\ n <= steps
                  /\ \A k \in 1..n : ~Throws(entries[ds[k]], featured)}
    IN CHOOSE n \in ok : \A m \in ok : m <= n

\* the files and the log after the first n passes
AfterPasses(entries, featured, v, steps, n) ==
    LET ds == dirs(entries)
        written == {ds[k] : k \in {j \in 1..n : ~IsTemplate(entries[ds[j]], featured)}}
        logged == SelectSeq(SubSeq(ds, 1, n),
                            LAMBDA j : ~IsTemplate(entries[j], featured))
    IN [entries |->
            [j \in DOMAIN entries |->
                IF j \in written
                THEN [entries[j] EXCEPT !.text =
                        WriteFile(entries[j].text,
                                  JSONstringify(packageJson(entries[j], v)))]
                ELSE entries[j]],
        updated |-> Cardinality(written),
        out |-> [k \in DOMAIN logged |->
                    UpdatedLine(GetProp(packageJson(entries[logged[k]], v), "name"), v)]
                \o (IF n = Len(ds)
                    THEN <<UpdatedTotal(Cardinality(written), v), NextHint>>
                    ELSE <<>>),
        threw |-> n < Len(ds) /\ n < steps,
        finished |-> n = Len(ds)]

UpdateLoop(entries, featured, v, steps) ==
    CHOOSE after \in {AfterPasses(entries, featured, v, steps, n) :
                         n \in {PassesDone(entries, featured, steps)}} : TRUE

\* update-version.ts run with the arguments args, stopped (by a signal)
\* after `steps` passes of the loop at the latest
UpdateVersion(entries, featured, args, steps) ==
    IF Len(args) = 0 \/ args[1] = <<>>
    THEN [entries |-> entries, updated |-> 0, out |-> <<>>, threw |-> TRUE,
          finished |-> FALSE]
    ELSE UpdateLoop(entries, featured, args[1], steps)

\* --------------------------------------------- update-version-files.ts
\* the templates of packagesWithVersionFiles
packagesWithVersionFiles(v) ==
    << [name |-> "remotion (core)",
        path |-> "packages/core/src/version.ts",
        template |-> "// Automatically generated on publish\n\n/**\n"
            \o " * @description Provides the current version number of the Remotion library.\n"
            \o " * @see [Documentation](https://remotion.dev/docs/version)\n"
            \o " * @returns {string} The current version of the remotion package\n"
            \o " */\nexport const VERSION = '" \o Join(v) \o "';\n"],
       [name |-> "@remotion/media-parser",
        path |-> "packages/media-parser/src/version.ts",
        template |-> "// Automatically generated on publish\n"
            \o "export const VERSION = '" \o Join(v) \o "';\n"] >>

VersionFileLine(name, v) ==
    "Updated " \o name \o " version.ts to " \o Join(v)
VersionFilesTotal(n) == "Updated " \o ToString(n) \o " version.ts files"

\* the for loop over packagesWithVersionFiles, left after all its passes,
\* before the first write that throws, or after `steps` passes when the
\* script is stopped from outside; files is the text at each path and
\* whether it can be written
WritesDone(files, steps) ==
    LET ok == {n \in 0..Len(files) :
                  n <= steps /\ \A k \in 1..n : files[k].writable}
    IN CHOOSE n \in ok : \A m \in ok : m <= n

\* the files and the log after the first n passes
AfterWrites(files, v, steps, n) ==
    LET pkgs == packagesWithVersionFiles(v)
    IN [files |-> [k \in DOMAIN files |->
                      IF k <= n
                      THEN [files[k] EXCEPT !.text = pkgs[k].template]
                      ELSE files[k]],
        out |-> [k \in 1..n |-> VersionFileLine(pkgs[k].name, v)]
                \o (IF n = Len(pkgs) THEN <<VersionFilesTotal(Len(pkgs))>> ELSE <<>>),
        threw |-> n < Len(pkgs) /\ n < steps,
        finished |-> n = Len(pkgs)]

VersionFilesLoop(files, v, steps) ==
    CHOOSE after \in {AfterWrites(files, v, steps, n) :
                         n \in {WritesDone(files, steps)}} : TRUE

UpdateVersionFilesRun(files, args, steps) ==
    IF Len(args) = 0 \/ args[1] = <<>>
    THEN [files |-> files, out |-> <<>>, threw |-> TRUE, finished |-> FALSE]
    ELSE VersionFilesLoop(files, args[1], steps)

VARIABLES
    argv,               \* process.argv from index 2
    pc,                 \* position of main
    i,                  \* index of the running for-of loop
    publishedPackages,  \* main's publishedPackages
    running,            \* a child process is running inside spawnSync
    result,             \* exec's result, what spawnSync returned last
    calls,              \* every exec call so far: command, args, description
    warnings,           \* warning lines logged
    exited,             \* the process has ended
    exitCode,           \* its exit status once exited
    published,          \* packages this run has put or met in the registry
    tagged,             \* packages this run gave the dist-tag latest
    packages,           \* the entries of packages/, as readdirSync lists them
    FEATURED_TEMPLATES, \* templateInMonorepo of each featured template
    versionFiles,       \* the file at each path of packagesWithVersionFiles
    stdout,             \* what the last child or script wrote to the terminal
    lastRun,            \* the last script run from the shell, and its status
    signals,            \* children of this run killed by a signal so far
    attempt,            \* which run of the pipeline at this version this is
    registry            \* tarballs of this version held from earlier runs

vars == <<argv, pc, i, publishedPackages, running, result, calls, warnings,
          exited, exitCode, published, tagged, packages, FEATURED_TEMPLATES,
          versionFiles, stdout, lastRun, signals, attempt, registry>>

version == argv[1]

\* a package.json as the repository keeps it
Manifest(name, v) ==
    [json |-> TRUE, members |-> << <<"name", name>>, <<"version", v>> >>,
     canonical |-> TRUE]

\* a package directory
Dir(name, text) ==
    [name |-> name, isDirectory |-> TRUE, hasManifest |-> TRUE,
     accessible |-> TRUE, text |-> text]

\* an entry of packages/ that is a plain file
File(name) ==
    [name |-> name, isDirectory |-> FALSE, hasManifest |-> FALSE,
     accessible |-> TRUE, text |-> NotJson]

\* a checkout whose packages are at the version v; the template keeps the
\* version of its own
Checkout(v) ==
    << File(".gitignore"),
       Dir("core", Manifest("remotion", v)),
       Dir("media-parser", Manifest("@remotion/media-parser", v)),
       Dir("template-helloworld", Manifest("template-helloworld", "1.0.0")) >>

\* the featured templates of the checkout, one of them not in the monorepo
Featured == <<"", "template-helloworld">>

\* the version.ts files as update-version-files.ts left them at v
VersionFilesAt(v) ==
    [k \in 1..Len(packagesWithVersionFiles(v)) |->
        [writable |-> TRUE, text |-> packagesWithVersionFiles(v)[k].template]]

NoRun == [script |-> "", status |-> 0, times |-> 0]

\* the process after its start
Start ==
    /\ pc = "main"
    /\ i = 1
    /\ publishedPackages = <<>>
    /\ running = FALSE
    /\ result = NoResult
    /\ calls = <<>>
    /\ warnings = <<>>
    /\ exited = FALSE
    /\ exitCode = 0
    /\ published = 0
    /\ tagged = 0
    /\ stdout = <<>>
    /\ lastRun = NoRun
    /\ signals = 0
    /\ attempt = 1
    /\ registry = [earlier |-> 0, tolerated |-> 0]

\* the version the checkout is at when the run starts
Previous == <<"4", ".", "0", ".", "4", "2", "7">>

\* the checkout of the previous release, as it is or with a package.json
\* that cannot be read or written
Checkouts ==
    {Checkout(Join(Previous)),
     [Checkout(Join(Previous)) EXCEPT ![3].accessible = FALSE]}

\* its version.ts files, as they are or with one that cannot be written
VersionFilesOnDisk ==
    {VersionFilesAt(Previous),
     [VersionFilesAt(Previous) EXCEPT ![2].writable = FALSE]}

\* a run for any command line, in a checkout of the previous release
Init ==
    /\ argv \in Argvs
    /\ Start
    /\ FEATURED_TEMPLATES = Featured
    /\ packages \in Checkouts
    /\ versionFiles \in VersionFilesOnDisk

\* -------------------------------------------------------- child processes
\* a child whose effects are not part of the state
NoEffect(r) ==
    UNCHANGED <<published, tagged, packages, versionFiles, stdout, registry>>

\* the passes of its loop a script gets to make: any number when it is
\* killed, all of them when it ends by itself, none when bun ends with an
\* error status before the script has run
StoppedAfter(r, passes) ==
    IF r.signal THEN 0..passes
    ELSE IF r.status = 0 THEN {passes}
    ELSE {0, passes}

\* bun update-version.ts <version>: started or not, killed after some
\* passes of its loop, ended by an exception, or run to its end
UpdateVersionChild(r) ==
    /\ UNCHANGED <<published, tagged, versionFiles, registry>>
    /\ IF r.error
       THEN UNCHANGED <<packages, stdout>>
       ELSE \E steps \in StoppedAfter(r, Len(dirs(packages))) :
            \E run \in {UpdateVersion(packages, FEATURED_TEMPLATES,
                                      <<version>>, steps)} :
                  /\ \/ r.signal /\ ~run.threw
                     \/ ~r.signal /\ r.status = 0 /\ run.finished
                     \/ ~r.signal /\ r.status = UncaughtStatus /\ run.threw
                     \/ ~r.signal /\ r.status # 0 /\ steps = 0 /\ ~run.threw
                  /\ packages' = run.entries
                  /\ stdout' = run.out

\* bun update-version-files.ts <version>
UpdateVersionFilesChild(r) ==
    /\ UNCHANGED <<published, tagged, packages, registry>>
    /\ IF r.error
       THEN UNCHANGED <<versionFiles, stdout>>
       ELSE \E steps \in StoppedAfter(r, Len(versionFiles)) :
            \E run \in {UpdateVersionFilesRun(versionFiles, <<version>>, steps)} :
                  /\ \/ r.signal /\ ~run.threw
                     \/ ~r.signal /\ r.status = 0 /\ run.finished
                     \/ ~r.signal /\ r.status = UncaughtStatus /\ run.threw
                     \/ ~r.signal /\ r.status # 0 /\ steps = 0 /\ ~run.threw
                  /\ versionFiles' = run.files
                  /\ stdout' = run.out

\* bun publish has put the package into the registry: its tarball is
\* uploaded
Uploaded ==
    /\ published - registry.tolerated < Len(publishOrder) - registry.earlier
    /\ published' = published + 1
    /\ UNCHANGED registry

\* a publish without --tolerate-republish: a package whose tarball the
\* registry holds is refused
InRegistryStrict == Uploaded

\* bun publish --tolerate-republish has left the package in the registry:
\* its tarball is uploaded, or the tarball an earlier run uploaded at this
\* version is left in place
InRegistry ==
    \/ Uploaded
    \/ /\ registry.tolerated < registry.earlier
       /\ published' = published + 1
       /\ registry' = [registry EXCEPT !.tolerated = @ + 1]

\* publish-single.ts: bun publish --tolerate-republish in the package
\* directory; the script ends with status 0 only after the publish has
\* succeeded, and a child that is killed may or may not have published
PublishSingle(r) ==
    /\ UNCHANGED <<tagged, packages, versionFiles, stdout>>
    /\ IF r.error \/ (~r.signal /\ r.status # 0)
       THEN UNCHANGED <<published, registry>>
       ELSE IF r.signal
       THEN UNCHANGED <<published, registry>> \/ InRegistry
       ELSE InRegistry

\* npm dist-tag add <name>@<version> latest: npm ends with status 0 only
\* after the registry has set the tag, and a child that is killed may or
\* may not have set it
DistTagAdd(r) ==
    /\ UNCHANGED <<published, packages, versionFiles, stdout, registry>>
    /\ IF r.error \/ (~r.signal /\ r.status # 0)
       THEN UNCHANGED tagged
       ELSE IF r.signal
       THEN tagged' \in {tagged, tagged + 1}
       ELSE tagged' = tagged + 1

\* the program a command line runs, and what it does to the state
RunChild(command, args, r) ==
    IF command = "bun" /\ args[1] = "publish-single.ts"
    THEN PublishSingle(r)
    ELSE IF command = "npm" /\ args[1] = "dist-tag"
    THEN DistTagAdd(r)
    ELSE IF command = "bun" /\ args[1] = "update-version.ts"
    THEN UpdateVersionChild(r)
    ELSE IF command = "bun" /\ args[1] = "update-version-files.ts"
    THEN UpdateVersionFilesChild(r)
    ELSE NoEffect(r)

\* ------------------------------------------------------------------ exec
\* an error that is logged and ends the process with status 0
errorExitZero ==
    /\ exited' = TRUE
    /\ exitCode' = ExitSuccess

\* error(message): log and process.exit(1)
error ==
    /\ exited' = TRUE
    /\ exitCode' = ExitFailure

\* a result whose error is never looked at
SpawnFailedIgnored(r) == FALSE

\* if (result.error): the child could not be started
SpawnFailed(r) == r.error

\* a test for the exit status 1 alone, result.status === 1
StatusIsOne(r) == ~r.error /\ ~r.signal /\ r.status = 1

\* result.status !== 0 && result.status !== null
StatusFails(r) == ~r.error /\ ~r.signal /\ r.status # 0

\* the test of the description left out: every failure is a warning
IsBuildAlways(description) == TRUE

\* the word looked for in lower case, description.includes("build")
IsBuildLowerCase(description) == Includes(description, <<"b", "u", "i", "l", "d">>)

\* description.includes("Build")
IsBuild(description) == Includes(description, BuildWord)

\* exec(command, args, description): the call starts the child, spawnSync
\* blocks until the child ends, then the result is classified.  Return is
\* what the caller does when exec returns.
exec(command, args, description, Return) ==
    /\ ~exited
    /\ \/ /\ ~running
          /\ running' = TRUE
          /\ result' = NoResult
          /\ calls' = Append(calls, [command |-> command, args |-> args,
                                     description |-> Join(description)])
          /\ stdout' = <<>>
          /\ UNCHANGED <<argv, pc, i, publishedPackages, warnings, exited,
                         exitCode, published, tagged, packages, FEATURED_TEMPLATES,
                         versionFiles, lastRun, signals, attempt, registry>>
       \/ /\ running
          /\ running' = FALSE
          /\ \E r \in SpawnResults :
                /\ r.signal => signals < MaxSignals
                /\ signals' = IF r.signal THEN signals + 1 ELSE signals
                /\ result' = r
                /\ RunChild(command, args, r)
                /\ IF SpawnFailed(r)
                   THEN error /\ UNCHANGED <<pc, i, publishedPackages, warnings>>
                   ELSE IF StatusFails(r)
                   THEN IF IsBuild(description)
                        THEN /\ warnings' = Append(warnings, "Build had warnings, continuing...")
                             /\ Return
                             /\ UNCHANGED <<exited, exitCode>>
                        ELSE error /\ UNCHANGED <<pc, i, publishedPackages, warnings>>
                   ELSE Return /\ UNCHANGED <<warnings, exited, exitCode>>
          /\ UNCHANGED <<argv, calls, FEATURED_TEMPLATES, lastRun, attempt>>

\* ------------------------------------------------------------------ main
\* main: the argument checks
Validate ==
    /\ pc = "main"
    /\ ~exited
    /\ IF Len(argv) = 0 \/ version = <<>>
       THEN error /\ UNCHANGED pc
       ELSE IF ~TestVersion(version)
       THEN error /\ UNCHANGED pc
       ELSE pc' = "bump" /\ UNCHANGED <<exited, exitCode>>
    /\ UNCHANGED <<argv, i, publishedPackages, running, result, calls, warnings,
                 published, tagged, packages, FEATURED_TEMPLATES, versionFiles,
                 stdout, lastRun, signals, attempt, registry>>

\* Step 1
BumpVersion ==
    /\ pc = "bump"
    /\ exec("bun", <<"update-version.ts", Join(version)>>,
            BumpVersionTo \o version,
            pc' = "updateVersionFiles" /\ UNCHANGED <<i, publishedPackages>>)

\* Step 2
UpdateVersionFiles ==
    /\ pc = "updateVersionFiles"
    /\ exec("bun", <<"update-version-files.ts", Join(version)>>,
            UpdateVersionFilesTo \o version,
            pc' = "install" /\ UNCHANGED <<i, publishedPackages>>)

\* a main whose install step is followed by the publish loop
InstallThenPublish ==
    /\ pc = "install"
    /\ exec("bun", <<"install">>, InstallDescription,
            pc' = "publishPackages" /\ i' = 1 /\ UNCHANGED publishedPackages)

\* Step 3
InstallDependencies ==
    /\ pc = "install"
    /\ exec("bun", <<"install">>, InstallDescription,
            pc' = "build" /\ UNCHANGED <<i, publishedPackages>>)

\* Step 4; main then enters publishPackages
Build ==
    /\ pc = "build"
    /\ exec("bun", <<"run", "build">>, BuildDescription,
            pc' = "publishPackages" /\ i' = 1 /\ UNCHANGED publishedPackages)

\* publishPackages: one pass of the loop over publishOrder
Publish ==
    /\ pc = "publishPackages"
    /\ i <= Len(publishOrder)
    /\ exec("bun", <<"publish-single.ts", Join(publishOrder[i])>>,
            PublishingScoped \o publishOrder[i],
            i' = i + 1 /\ UNCHANGED <<pc, publishedPackages>>)

\* a publishPackages that returns the order without its last package
PublishReturnShort ==
    /\ pc = "publishPackages"
    /\ i > Len(publishOrder)
    /\ ~exited
    /\ ~running
    /\ publishedPackages' = SubSeq(publishOrder, 1, Len(publishOrder) - 1)
    /\ pc' = "tagPackagesAsLatest"
    /\ i' = 1
    /\ UNCHANGED <<argv, running, result, calls, warnings, exited, exitCode,
                   published, tagged, packages, FEATURED_TEMPLATES, versionFiles,
                   stdout, lastRun, signals, attempt, registry>>

\* publishPackages returns publishOrder; main enters tagPackagesAsLatest
PublishReturn ==
    /\ pc = "publishPackages"
    /\ i > Len(publishOrder)
    /\ ~exited
    /\ ~running
    /\ publishedPackages' = publishOrder
    /\ pc' = "tagPackagesAsLatest"
    /\ i' = 1
    /\ UNCHANGED <<argv, running, result, calls, warnings, exited, exitCode,
                 published, tagged, packages, FEATURED_TEMPLATES, versionFiles,
                 stdout, lastRun, signals, attempt, registry>>

\* the scoped name for every package, `@remotion/${pkg}`
packageNameScoped(pkg) == Scope \o pkg

\* pkg === "core" ? "remotion" : `@remotion/${pkg}`
packageName(pkg) == IF pkg = CorePkg THEN Unscoped ELSE Scope \o pkg

\* tagPackagesAsLatest: one pass of the loop over packages
Tag ==
    /\ pc = "tagPackagesAsLatest"
    /\ i <= Len(publishedPackages)
    /\ exec("npm",
            <<"dist-tag", "add",
              Join(packageName(publishedPackages[i]) \o AtSign \o version),
              "latest", "--registry", "http://localhost:4873/">>,
            TaggingWord \o packageName(publishedPackages[i]) \o AtSign
                \o version \o AsLatest,
           
            i' = i + 1 /\ UNCHANGED <<pc, publishedPackages>>)

\* tagPackagesAsLatest returns, main logs the success and returns
MainReturn ==
    /\ pc = "tagPackagesAsLatest"
    /\ i > Len(publishedPackages)
    /\ ~exited
    /\ ~running
    /\ pc' = "done"
    /\ exited' = TRUE
    /\ exitCode' = ExitSuccess
    /\ UNCHANGED <<argv, i, publishedPackages, running, result, calls, warnings,
                 published, tagged, packages, FEATURED_TEMPLATES, versionFiles,
                 stdout, lastRun, signals, attempt, registry>>

Next ==
    \/ Validate
    \/ BumpVersion
    \/ UpdateVersionFiles
    \/ InstallDependencies
    \/ Build
    \/ Publish
    \/ PublishReturn
    \/ Tag
    \/ MainReturn

Spec == Init /\ [][Next]_vars

\* ------------------------------------------- the scripts run on their own
\* the members a package.json is written from
Pairs == {<<"name", "remotion">>, <<"version", "4.0.428">>}

\* the texts of a package.json: up to two members written in any order,
\* laid out as JSON.stringify lays them out or otherwise, or no JSON
Texts ==
    {[json |-> TRUE, members |-> m, canonical |-> c] :
        m \in UNION {[1..k -> Pairs] : k \in 0..2}, c \in BOOLEAN}
    \cup {NotJson}

EntryNames == <<"core", "template-helloworld", "cli", "media-parser">>

\* what the entry called name can be: a file, a directory without
\* package.json, a directory whose package.json cannot be read or written,
\* a directory with any of the texts
EntriesNamed(name) ==
    {File(name),
     [Dir(name, NotJson) EXCEPT !.hasManifest = FALSE],
     [Dir(name, Manifest("remotion", "4.0.427")) EXCEPT !.accessible = FALSE]}
    \cup {Dir(name, t) : t \in Texts}

Listings ==
    UNION {{l \in [1..n -> UNION {EntriesNamed(EntryNames[k]) : k \in 1..n}] :
                \A k \in 1..n : l[k].name = EntryNames[k]} : n \in 0..MaxEntries}

FeaturedLists == {<<>>, <<"", "template-helloworld">>}

ScriptArgvs == {<<>>} \cup {<<s>> : s \in Examples}

\* version.ts files: regenerated at the previous version or edited by
\* hand, in a directory that can be written or not
VersionFileStates ==
    [1..Len(packagesWithVersionFiles(Previous)) ->
        {[writable |-> w, text |-> t] :
            w \in BOOLEAN,
            t \in {packagesWithVersionFiles(Previous)[1].template,
                   "export const VERSION = '4.0.428';"}}]

\* a developer is about to run the propagation scripts from the shell
InitPropagate ==
    /\ argv \in ScriptArgvs
    /\ Start
    /\ \/ /\ packages \in Listings
          /\ FEATURED_TEMPLATES \in FeaturedLists
          /\ versionFiles = VersionFilesAt(Previous)
       \/ /\ packages = Checkout(Join(Previous))
          /\ FEATURED_TEMPLATES = Featured
          /\ versionFiles \in VersionFileStates

Again(script) ==
    [script |-> script,
     times |-> IF lastRun.script = script THEN lastRun.times + 1 ELSE 1]

\* bun update-version.ts <version>, run to its end or to its exception
UpdateVersionScript ==
    /\ lastRun.script = "update-version.ts" => lastRun.times < MaxRuns
    /\ LET run == UpdateVersion(packages, FEATURED_TEMPLATES, argv,
                                Len(dirs(packages)))
       IN /\ packages' = run.entries
          /\ stdout' = run.out
          /\ lastRun' = [script |-> "update-version.ts",
                         status |-> IF run.threw THEN UncaughtStatus ELSE 0,
                         times |-> Again("update-version.ts").times]
    /\ UNCHANGED <<argv, pc, i, publishedPackages, running, result, calls,
                   warnings, exited, exitCode, published, tagged, FEATURED_TEMPLATES,
                   versionFiles, signals, attempt, registry>>

\* bun update-version-files.ts <version>
UpdateVersionFilesScript ==
    /\ lastRun.script = "update-version-files.ts" => lastRun.times < MaxRuns
    /\ LET run == UpdateVersionFilesRun(versionFiles, argv, Len(versionFiles))
       IN /\ versionFiles' = run.files
          /\ stdout' = run.out
          /\ lastRun' = [script |-> "update-version-files.ts",
                         status |-> IF run.threw THEN UncaughtStatus ELSE 0,
                         times |-> Again("update-version-files.ts").times]
    /\ UNCHANGED <<argv, pc, i, publishedPackages, running, result, calls,
                   warnings, exited, exitCode, published, tagged, FEATURED_TEMPLATES,
                   packages, signals, attempt, registry>>

NextPropagate ==
    \/ UpdateVersionScript
    \/ UpdateVersionFilesScript

SpecPropagate == InitPropagate /\ [][NextPropagate]_vars

TypeOK ==
    /\ pc \in {"main", "bump", "updateVersionFiles", "install", "build",
               "publishPackages", "tagPackagesAsLatest", "done"}
    /\ running => calls # <<>>
    /\ published \in 0..Len(publishOrder)

\* --------------------------------------------------- vocabulary of claims
\* the package identifiers of publishOrder as strings
PackageIds == [k \in 1..Len(publishOrder) |-> Join(publishOrder[k])]

LastCall == calls[Len(calls)]
IsBumpCall(c) == c.command = "bun" /\ c.args[1] = "update-version.ts"
IsVersionFilesCall(c) == c.command = "bun" /\ c.args[1] = "update-version-files.ts"
IsInstallCall(c) == c.command = "bun" /\ c.args = <<"install">>
IsBuildCall(c) == c.command = "bun" /\ c.args = <<"run", "build">>
IsPublishCall(c) == c.command = "bun" /\ c.args[1] = "publish-single.ts"
IsTagCall(c) == c.command = "npm" /\ c.args[1] = "dist-tag"

\* the child of the last call has ended and spawnSync has returned
Returned == ~running /\ calls # <<>>
ExitedZero(r) == ~r.error /\ ~r.signal /\ r.status = 0
ExitedNonZero(r) == ~r.error /\ ~r.signal /\ r.status \in 1..MaxStatus
Halted == exited /\ exitCode # 0

\* the pattern 4.0.<one or more digits>
MatchesPattern(s) ==
    /\ Len(s) > 4
    /\ SubSeq(s, 1, 4) = <<"4", ".", "0", ".">>
    /\ \A k \in 5..Len(s) : s[k] \in {"0", "1", "2", "3", "4", "5", "6", "7", "8", "9"}

ArgAccepted == Len(argv) > 0 /\ MatchesPattern(argv[1])

\* un-scoped for core, scoped for every other identifier
RegistryName(id) == IF id = "core" THEN "remotion" ELSE "@remotion/" \o id

\* the fixed sequence of steps of a run at version v, as command lines
FixedSequence(v) ==
    << <<"bun", <<"update-version.ts", v>> >>,
       <<"bun", <<"update-version-files.ts", v>> >>,
       <<"bun", <<"install">> >>,
       <<"bun", <<"run", "build">> >> >>
    \o [k \in 1..Len(PackageIds) |-> <<"bun", <<"publish-single.ts", PackageIds[k]>> >>]
    \o [k \in 1..Len(PackageIds) |->
            <<"npm", <<"dist-tag", "add", RegistryName(PackageIds[k]) \o "@" \o v,
                       "latest", "--registry", "http://localhost:4873/">> >>]

Invocations == [k \in 1..Len(calls) |-> <<calls[k].command, calls[k].args>>]

IsPrefix(s, t) == Len(s) <= Len(t) /\ SubSeq(t, 1, Len(s)) = s

\* ------------------------------------------------------ the run repeated
\* a run at 4.0.428 in a checkout of the previous release
InitRerun ==
    /\ argv = << <<"4", ".", "0", ".", "4", "2", "8">> >>
    /\ Start
    /\ FEATURED_TEMPLATES = Featured
    /\ packages = Checkout(Join(Previous))
    /\ versionFiles = VersionFilesAt(Previous)

\* after a run that has halted, the whole pipeline is run again with the
\* same argument: a new process, the checkout and the registry as the
\* halted run left them
Rerun ==
    /\ Halted
    /\ attempt < MaxRuns
    /\ attempt' = attempt + 1
    /\ registry' = [earlier |-> registry.earlier + (published - registry.tolerated),
                    tolerated |-> 0]
    /\ pc' = "main"
    /\ i' = 1
    /\ publishedPackages' = <<>>
    /\ running' = FALSE
    /\ result' = NoResult
    /\ calls' = <<>>
    /\ warnings' = <<>>
    /\ exited' = FALSE
    /\ exitCode' = 0
    /\ published' = 0
    /\ tagged' = 0
    /\ stdout' = <<>>
    /\ signals' = 0
    /\ UNCHANGED <<argv, packages, FEATURED_TEMPLATES, versionFiles, lastRun>>

\* every step that ends in this move has ended with the status 0
Succeeds == (running /\ ~running') => ExitedZero(result')

\* the first run as it may go, then runs in which every step succeeds
NextRerun ==
    \/ attempt = 1 /\ Next
    \/ Rerun
    \/ attempt > 1 /\ Next /\ Succeeds

SpecRerun == InitRerun /\ [][NextRerun]_vars


\* ------------------------------------------------------------------ C1
\* C1: an argument that is absent or does not match 4.0.<digits> halts main
\* at the validation, before any step is invoked and before anything is
\* published; an argument that matches passes the validation and the bump
\* step is the step invoked next.
C1_ValidationGate ==
    /\ ~ArgAccepted =>
          /\ pc = "main"
          /\ calls = <<>>
          /\ ~running
          /\ published = 0
          /\ exited => exitCode # 0
    /\ ArgAccepted =>
          /\ ~(exited /\ pc = "main")
          /\ (pc # "main" /\ calls = <<>>) => (pc = "bump" /\ ENABLED BumpVersion)
          /\ calls # <<>> =>
                /\ calls[1].command = "bun"
                /\ calls[1].args = <<"update-version.ts", Join(argv[1])>>

\* 4.1.0 has been rejected
C1_Witness ==
    /\ argv = << <<"4", ".", "1", ".", "0">> >>
    /\ exited
    /\ exitCode = 1
    /\ calls = <<>>

\* ------------------------------------------------------------------ C2
\* C2: the steps invoked so far are always a prefix of the fixed sequence
\* bump, version files, install, build, publish p1..pn, tag p1..pn, and a
\* step is started only while no child of an earlier step is running.
C2_FixedSequence ==
    /\ [](calls # <<>> => IsPrefix(Invocations, FixedSequence(Join(argv[1]))))
    /\ [][calls' # calls =>
            /\ ~running
            /\ running'
            /\ Len(calls') = Len(calls) + 1
            /\ SubSeq(calls', 1, Len(calls)) = calls]_vars

\* the last publish of the order is running after the four first steps
C2_Witness ==
    /\ running
    /\ Len(calls) = 4 + Len(publishOrder)
    /\ IsPublishCall(LastCall)

\* ------------------------------------------------------------------ C3
\* C3: a non-zero exit status of any step but the build halts the run in
\* that step with nothing left to do; of the build it does not.
C3_OnlyBuildTolerated ==
    (Returned /\ ExitedNonZero(result)) =>
        IF IsBuildCall(LastCall)
        THEN ~exited /\ pc = "publishPackages"
        ELSE /\ Halted
             /\ ~ENABLED Next
             /\ IsBumpCall(LastCall) => pc = "bump"
             /\ IsVersionFilesCall(LastCall) => pc = "updateVersionFiles"
             /\ IsInstallCall(LastCall) => pc = "install"
             /\ IsPublishCall(LastCall) =>
                    pc = "publishPackages" /\ LastCall.args[2] = PackageIds[i]
             /\ IsTagCall(LastCall) => pc = "tagPackagesAsLatest"

\* the install step has ended with status 2 and the run has halted there
C3_Witness ==
    /\ Returned
    /\ IsInstallCall(LastCall)
    /\ result.status = 2
    /\ Halted

\* ------------------------------------------------------------------ C4
\* C4: when the publish step of the package at index k fails fatally, the
\* run is over and no publish step of a package at a larger index has been
\* or will be invoked.
C4_FailFastPublish ==
    \A k \in 1..Len(PackageIds) :
        ( /\ Returned
          /\ LastCall.command = "bun"
          /\ LastCall.args = <<"publish-single.ts", PackageIds[k]>>
          /\ (result.error \/ ExitedNonZero(result)) ) =>
            /\ exited
            /\ ~ENABLED Next
            /\ \A m \in DOMAIN calls : \A j \in (k + 1)..Len(PackageIds) :
                  ~(IsPublishCall(calls[m]) /\ calls[m].args[2] = PackageIds[j])

\* the publish of the third package has failed
C4_Witness ==
    /\ Returned
    /\ LastCall.args = <<"publish-single.ts", PackageIds[3]>>
    /\ ExitedNonZero(result)
    /\ exited

\* ------------------------------------------------------------------ C5
\* C5: when the build step ends with a non-zero status the run goes on: a
\* warning is recorded, main stands at the publish loop, and the next step
\* invoked is the publish of the first package of the order.
C5_TolerantBuild ==
    /\ (Returned /\ IsBuildCall(LastCall) /\ ExitedNonZero(result)) =>
          /\ ~exited
          /\ warnings = <<"Build had warnings, continuing...">>
          /\ pc = "publishPackages"
          /\ i = 1
          /\ ENABLED Publish
    /\ (warnings # <<>> /\ Len(calls) > 4) =>
          /\ calls[5].command = "bun"
          /\ calls[5].args = <<"publish-single.ts", PackageIds[1]>>

\* the first publish was invoked after a build that ended with a warning
C5_Witness ==
    /\ warnings # <<>>
    /\ Len(calls) = 5
    /\ IsPublishCall(calls[5])
    /\ running

\* ------------------------------------------------------------------ C6
PublishCalls == SelectSeq(calls, IsPublishCall)
TagCalls == SelectSeq(calls, IsTagCall)

\* C6: a tag step is invoked only once the registry has received every
\* package of the publish order from this run, and the list handed to
\* tagPackagesAsLatest holds as many packages as were published.
C6_TagAfterAllPublished ==
    /\ TagCalls # <<>> => published = Len(publishOrder)
    /\ pc = "tagPackagesAsLatest" => Len(publishedPackages) = published

\* ------------------------------------------------------------------ C7
\* the documented order: core packages and CLI dev dependencies first
DocumentedDependencies ==
    {"renderer", "bundler", "media-utils", "player", "studio-shared",
     "studio-server", "studio", "lambda-client", "core", "serverless",
     "zod-types", "tailwind-v4", "enable-scss", "skia"}
\* the main packages, documented as published last
MainPackages == {"cli", "lambda"}

\* C7: whenever the publish step of cli or of lambda is invoked, the publish
\* step of every core package and of every CLI dev dependency was invoked
\* before it.
C7_DocumentedOrder ==
    \A k \in DOMAIN calls :
        (IsPublishCall(calls[k]) /\ calls[k].args[2] \in MainPackages) =>
            \A d \in DocumentedDependencies :
                \E j \in 1..(k - 1) :
                    IsPublishCall(calls[j]) /\ calls[j].args[2] = d

\* ------------------------------------------------------------------ C8
\* C8: the j-th tag step targets <name>@<version> with the marker latest,
\* where <name> is remotion for the identifier core and @remotion/<id> for
\* every other identifier handed to tagPackagesAsLatest.
C8_TagDerivation ==
    \A j \in DOMAIN TagCalls :
        /\ j <= Len(publishedPackages)
        /\ TagCalls[j].command = "npm"
        /\ SubSeq(TagCalls[j].args, 1, 4) =
              <<"dist-tag", "add",
                RegistryName(Join(publishedPackages[j])) \o "@" \o Join(argv[1]),
                "latest">>

\* both the un-scoped name and a scoped name have been tagged at 4.0.428
C8_Witness ==
    /\ \E j \in DOMAIN TagCalls : TagCalls[j].args[3] = "remotion@4.0.428"
    /\ \E j \in DOMAIN TagCalls : TagCalls[j].args[3] = "@remotion/cli@4.0.428"

\* ------------------------------------------------------------------ C9
\* C9: a run halts only on a step that did not succeed or on a rejected
\* argument, a run that has not ended can take its next step, and a run
\* that is done has invoked publish once per package of the order, in
\* order, then tag once per package in the same order, each naming the
\* version, and has ended with status 0.
C9_EndToEnd ==
    /\ (Halted /\ calls # <<>>) => (~running /\ ~ExitedZero(result))
    /\ (Halted /\ calls = <<>>) => ~ArgAccepted
    /\ ~exited => ENABLED Next
    /\ pc = "done" =>
          /\ exited
          /\ exitCode = 0
          /\ Len(calls) = 4 + 2 * Len(PackageIds)
          /\ [j \in 1..Len(PublishCalls) |-> PublishCalls[j].args[2]] = PackageIds
          /\ [j \in 1..Len(TagCalls) |-> TagCalls[j].args[3]] =
                [j \in 1..Len(PackageIds) |->
                    RegistryName(PackageIds[j]) \o "@" \o Join(argv[1])]
          /\ \A j \in 1..(4 + Len(PackageIds)) : ~IsTagCall(calls[j])

\* a run at 4.0.428 is done and every package got through to the registry
C9_Witness ==
    /\ pc = "done"
    /\ argv = << <<"4", ".", "0", ".", "4", "2", "8">> >>
    /\ published = Len(publishOrder)
    /\ ExitedZero(result)
    /\ warnings = <<>>

\* ----------------------------------------------------------------- C10
\* C10: the process ends with status 0 exactly when main is done, and
\* with a non-zero status on a missing or rejected argument, on a step
\* that could not be started and on a non-zero exit status of a step
\* other than the build.
C10_ExitStatus ==
    /\ exited => (exitCode = 0 <=> pc = "done")
    /\ pc = "done" => exited
    /\ (exited /\ pc = "main") => (~ArgAccepted /\ exitCode # 0)
    /\ (Returned /\ result.error) => Halted
    /\ (Returned /\ ExitedNonZero(result) /\ ~IsBuildCall(LastCall)) => Halted

\* the build could not be started and the process ended with status 1
C10_Witness ==
    /\ Returned
    /\ IsBuildCall(LastCall)
    /\ result.error
    /\ exited
    /\ exitCode = 1

\* ----------------------------------------------------------------- C11
\* C11: when the run has halted on a step that ended with the non-zero
\* status c, the process has ended with the status c; a run halted at the
\* argument checks has ended with the fixed status 1.
C11_ExitCodePropagated ==
    /\ (Halted /\ Returned /\ ExitedNonZero(result)) => exitCode = result.status
    /\ (Halted /\ calls = <<>>) => exitCode = ExitFailure

\* ----------------------------------------------------------------- C15
\* C15: whenever a step, the build included, could not be started, the run
\* has halted in that step with a non-zero status, no warning stands in for
\* the failure, and no step can be invoked any more.
C15_StartFailureFatal ==
    (Returned /\ result.error) =>
        /\ Halted
        /\ ~ENABLED Next
        /\ IsBuildCall(LastCall) => (pc = "build" /\ warnings = <<>>)
        /\ IsBumpCall(LastCall) => pc = "bump"
        /\ IsTagCall(LastCall) => pc = "tagPackagesAsLatest"
        /\ Len(calls) <= 4 + 2 * Len(publishOrder)

\* the build could not be started: the run is over, nothing was published
C15_Witness ==
    /\ Returned
    /\ IsBuildCall(LastCall)
    /\ result.error
    /\ Halted
    /\ pc = "build"
    /\ Len(calls) = 4
    /\ published = 0

\* ----------------------------------------------------------------- C16
\* C16: once a step other than the build has ended in any way but with
\* the status 0, the run has halted; and a run that is done has seen no
\* such step.
C16_AdvanceOnlyOnZero ==
    /\ (Returned /\ ~IsBuildCall(LastCall) /\ ~ExitedZero(result)) => Halted
    /\ (pc = "done" /\ exitCode = 0) => ExitedZero(result)

\* ---------------------------------------- vocabulary of the propagation
\* the identifiers of the template-exclusion set
ExclusionSet == {FEATURED_TEMPLATES[k] : k \in DOMAIN FEATURED_TEMPLATES} \ {""}

\* entries that are a directory, hold a manifest and are no template
Eligible(entries) ==
    {k \in DOMAIN entries :
        /\ entries[k].isDirectory
        /\ entries[k].hasManifest
        /\ entries[k].name \notin ExclusionSet}

\* the value a manifest text gives the field key: the last one written
HasField(text, key) == \E j \in DOMAIN text.members : text.members[j][1] = key
Field(text, key) ==
    LET last == CHOOSE j \in DOMAIN text.members :
                    /\ text.members[j][1] = key
                    /\ \A m \in DOMAIN text.members :
                          text.members[m][1] = key => m <= j
    IN text.members[last][2]
FieldNames == {"name", "version"}

RanAgain(script) ==
    /\ lastRun.script = script
    /\ lastRun'.script = script
    /\ lastRun'.times = lastRun.times + 1

\* ----------------------------------------------------------------- C12
\* C12: a run of update-version.ts that follows a run of update-version.ts
\* with the same argument leaves every package.json as the first run left
\* it, and a run of update-version-files.ts that follows one leaves every
\* version.ts as the first run left it.
C12_IdempotentPropagation ==
    [][/\ RanAgain("update-version.ts") => packages' = packages
       /\ RanAgain("update-version-files.ts") => versionFiles' = versionFiles]_vars

\* update-version.ts 4.1.0 has run twice over a manifest that was at
\* 4.0.428 and not laid out as the script lays it out
C12_Witness ==
    /\ lastRun = [script |-> "update-version.ts", status |-> 0, times |-> 2]
    /\ argv = << <<"4", ".", "1", ".", "0">> >>
    /\ Len(packages) = 2
    /\ packages[1].text =
          [json |-> TRUE, canonical |-> TRUE,
           members |-> << <<"version", "4.1.0">>, <<"name", "remotion">> >>]

\* ----------------------------------------------------------------- C13
\* C13: no run of update-version.ts, whatever its argument, changes the
\* package.json of a directory whose name is in the exclusion set, and the
\* count a finished run reports leaves these directories out.
C13_Exclusion ==
    /\ [][\A k \in DOMAIN packages :
             packages[k].name \in ExclusionSet => packages'[k] = packages[k]]_vars
    /\ [](\A n \in 0..Len(packages) :
             (/\ lastRun.script = "update-version.ts"
              /\ lastRun.status = 0
              /\ UpdatedTotal(n, argv[1]) \in SeqToSet(stdout)) =>
                 /\ n <= Cardinality(Eligible(packages))
                 /\ Len(stdout) = n + 2)

\* after update-version.ts 4.1.0 the template still has its own text and
\* one package is counted
C13_Witness ==
    /\ lastRun.script = "update-version.ts"
    /\ lastRun.status = 0
    /\ argv = << <<"4", ".", "1", ".", "0">> >>
    /\ FEATURED_TEMPLATES = <<"", "template-helloworld">>
    /\ Len(packages) = 2
    /\ packages[1].text = JSONstringify(<< <<"name", "remotion">>, <<"version", "4.1.0">> >>)
    /\ packages[2].text =
          [json |-> TRUE, canonical |-> FALSE,
           members |-> << <<"version", "4.0.428">> >>]
    /\ stdout[2] = "Updated 1 packages to version 4.1.0"

\* ----------------------------------------------------------------- C20
\* C20: when update-version.ts <v> has run to its end, every entry of
\* packages/ that is a directory, holds a package.json and is not in the
\* exclusion set has the version v in its package.json and every other
\* field as before the run, and the count reported is the number of these
\* entries.
C20_Propagated ==
    [][(lastRun' # lastRun /\ lastRun'.script = "update-version.ts"
            /\ lastRun'.status = 0) =>
          /\ \A k \in Eligible(packages) :
                /\ packages'[k].text.json
                /\ HasField(packages'[k].text, "version")
                /\ Field(packages'[k].text, "version") = Join(argv[1])
                /\ \A f \in FieldNames \ {"version"} :
                      /\ HasField(packages'[k].text, f) = HasField(packages[k].text, f)
                      /\ HasField(packages[k].text, f) =>
                            Field(packages'[k].text, f) = Field(packages[k].text, f)
          /\ Len(stdout') >= 2
          /\ stdout'[Len(stdout') - 1] =
                UpdatedTotal(Cardinality(Eligible(packages)), argv[1])]_vars

\* two packages were updated to 4.1.0 and two are reported
C20_Witness ==
    /\ lastRun = [script |-> "update-version.ts", status |-> 0, times |-> 1]
    /\ FEATURED_TEMPLATES = <<>>
    /\ Len(packages) = 2
    /\ \A k \in 1..2 : packages[k].text =
          JSONstringify(<< <<"name", "remotion">>, <<"version", "4.1.0">> >>)
    /\ stdout = <<"Updated remotion to v4.1.0", "Updated remotion to v4.1.0",
                  "Updated 2 packages to version 4.1.0",
                  "Next: bun run build && bun publish.ts">>

\* ----------------------------------------------------------------- C14
\* a package.json of the checkout that update-version.ts cannot process
Unusable(entries) ==
    \E k \in Eligible(entries) : ~entries[k].accessible \/ ~entries[k].text.json

\* the packages whose package.json carries the version v
AtVersion(entries, v) ==
    {k \in Eligible(entries) :
        /\ entries[k].text.json
        /\ HasField(entries[k].text, "version")
        /\ Field(entries[k].text, "version") = Join(v)}

\* the version.ts files that carry the version v
FilesAtVersion(files, v) ==
    {k \in DOMAIN files : files[k].text = packagesWithVersionFiles(v)[k].template}

\* C14: when a propagation step has ended on a file it could not read or
\* write, after it had updated some files, the run has halted in that step,
\* nothing more can be invoked, and the step has reported how many packages
\* (or version.ts files) it had updated.
C14_PartialPropagation ==
    /\ ( /\ Returned
         /\ IsBumpCall(LastCall)
         /\ ExitedNonZero(result)
         /\ Unusable(packages)
         /\ AtVersion(packages, version) # {} ) =>
            /\ Halted
            /\ pc = "bump"
            /\ ~ENABLED Next
            /\ UpdatedTotal(Cardinality(AtVersion(packages, version)), version)
                  \in SeqToSet(stdout)
    /\ ( /\ Returned
         /\ IsVersionFilesCall(LastCall)
         /\ ExitedNonZero(result)
         /\ \E k \in DOMAIN versionFiles : ~versionFiles[k].writable
         /\ FilesAtVersion(versionFiles, version) # {} ) =>
            /\ Halted
            /\ pc = "updateVersionFiles"
            /\ ~ENABLED Next
            /\ VersionFilesTotal(Cardinality(FilesAtVersion(versionFiles, version)))
                  \in SeqToSet(stdout)

\* ----------------------------------------------------------------- C17
\* C17: once the build step has been invoked, the package.json of every
\* package that is no template and both version.ts files carry the version
\* given to the run.
C17_NoDriftAtBuild ==
    (\E k \in DOMAIN calls : IsBuildCall(calls[k])) =>
        /\ AtVersion(packages, version) = Eligible(packages)
        /\ FilesAtVersion(versionFiles, version) = DOMAIN versionFiles

\* ----------------------------------------------------------------- C18
\* C18: when the tag step of the package at index k has failed, the run has
\* halted short of done, no tag step of a package at a larger index has
\* been or can be invoked, the k - 1 packages before it carry the tag
\* latest, and no step ever takes a package or a tag out of the registry.
C18_TagFailure ==
    /\ [](\A k \in 1..Len(publishOrder) :
            ( /\ Returned
              /\ IsTagCall(LastCall)
              /\ Len(TagCalls) = k
              /\ (result.error \/ ExitedNonZero(result)) ) =>
                /\ Halted
                /\ pc = "tagPackagesAsLatest"
                /\ ~ENABLED Next
                /\ tagged = k - 1)
    /\ [][published' >= published /\ tagged' >= tagged]_vars

\* ----------------------------------------------------------------- C19
\* a step of a run in which every step succeeds
SucceedingStep == Next /\ Succeeds

\* C19: a run started again after a halted run, in which every step
\* succeeds, never halts and can always take its next step until it is
\* done; no publish step uploads over a tarball the halted run had
\* uploaded, and when the run is done every package of the order is in the
\* registry and carries the tag latest, each tarball of the halted run
\* having been met by a publish step that left it in place.
C19_RerunRecovery ==
    attempt > 1 =>
        /\ ~Halted
        /\ ~exited => ENABLED SucceedingStep
        /\ registry.tolerated <= registry.earlier
        /\ published - registry.tolerated <= Len(publishOrder) - registry.earlier
        /\ pc = "done" =>
              /\ exited
              /\ exitCode = 0
              /\ published = Len(publishOrder)
              /\ tagged = Len(publishOrder)
              /\ registry.tolerated = registry.earlier

\* the second run is done after a first run that halted with three
\* packages published
C19_Witness ==
    /\ attempt = 2
    /\ pc = "done"
    /\ registry = [earlier |-> 3, tolerated |-> 3]
    /\ published = Len(publishOrder)
    /\ tagged = Len(publishOrder)
====
